---- MODULE Spec2Model ----
(***************************************************************************)
(* The Streamlit finance advisor of src/app.py as a state machine.         *)
(*                                                                         *)
(* Streamlit runs the whole script from the top on every interaction.  The *)
(* state that survives from one run to the next is st.session_state, the   *)
(* cached data frame and the values of the widgets; everything else is     *)
(* recomputed by the run and shown on the page.  One action of the model   *)
(* is one interaction together with the script run it triggers.            *)
(*                                                                         *)
(* Percentages of the economic data and of the simulation sliders are held *)
(* in tenths of a percent (Pct(2, 5) is 2.5%); the script only compares    *)
(* them with constants, which is exact in floating point.  The portfolio   *)
(* arithmetic is binary floating point and is modelled as such (see the    *)
(* section on doubles).                                                    *)
(*                                                                         *)
(* Tab 1 (data preview, statistics, charts) only renders the data frame    *)
(* and is not modelled.                                                    *)
(***************************************************************************)
EXTENDS Integers, Sequences, FiniteSets, TLC

VARIABLES
    session_state,  \* st.session_state: [authenticated]
    df,             \* the cached result of load_data(): None, or the table read from the file
    widgets,        \* the values of the widgets, kept by Streamlit across runs
    page,           \* what the last run of the script computed and rendered
    remembered,     \* history variable: an earlier run's inputs and results
    returned        \* the last call of generate_suggestions made on its own

vars == <<session_state, df, widgets, page, remembered, returned>>

\* What a variable of the script holds before the script has assigned it.
None == "None"

(***************************************************************************)
(* Bounds of the exploration                                               *)
(***************************************************************************)

\* The simulation sliders are moved over whole percentages up to MaxSim
\* (the sliders themselves reach 15.0).
MaxSim == 6

Pct(whole, tenths) == 10 * whole + tenths

(***************************************************************************)
(* IEEE-754 doubles                                                        *)
(*                                                                         *)
(* Every double the portfolio arithmetic produces lies within a few ulps   *)
(* of a decimal fraction k/den.  A double is held as [k, e]: its value is  *)
(*     k/den + e * 2^(-shift) / den                                        *)
(* so that, counted in units of 2^(-shift)/den, it is the integer          *)
(* k * 2^shift + e, and the spacing of the doubles in [2^j, 2^(j+1)) is    *)
(* odd * 2^(j - tmin) units, where den = odd * 2^i.  Rounding to nearest,  *)
(* ties to even, then needs only that integer modulo the spacing, which    *)
(* fits the 32-bit integers of the model checker.                          *)
(***************************************************************************)

RECURSIVE Pow2Mod(_, _)
Pow2Mod(n, m) == IF n = 0 THEN 1 % m ELSE (2 * Pow2Mod(n - 1, m)) % m

\* Formats: tenths and hundredths (the weighted sums), thousandths and
\* ten-thousandths (the sums divided by 100).  pow is 2^shift modulo the
\* widest spacing used, odd * 2^17, of which every spacing is a divisor.
Tenths ==
    [den |-> 10, odd |-> 5, shift |-> 55, tmin |-> -4, pow |-> Pow2Mod(55, 5 * 2^17)]
Thousandths ==
    [den |-> 1000, odd |-> 125, shift |-> 59, tmin |-> -10, pow |-> Pow2Mod(59, 125 * 2^17)]
Hundredths ==
    [den |-> 100, odd |-> 25, shift |-> 57, tmin |-> -7, pow |-> Pow2Mod(57, 25 * 2^17)]
TenThousandths ==
    [den |-> 10000, odd |-> 625, shift |-> 62, tmin |-> -14, pow |-> Pow2Mod(62, 625 * 2^17)]

\* (k * c) % m without leaving 32 bits (k < 2^12, c < m < 2^24).
MulMod(k, c, m) == ((k \div 64) * ((64 * c) % m) + (k % 64) * c) % m

\* t with 2^(t + tmin) <= k/den + (the e part) < 2^(t + tmin + 1), for k > 0.
Binade(k, e, fmt) ==
    LET K == k * 2^(0 - fmt.tmin)
        t == CHOOSE i \in 0..16 : K < fmt.den * 2^(i + 1)
    IN  IF fmt.den * 2^t = K /\ e < 0 THEN t - 1 ELSE t

\* k * 2^shift + e modulo m, a spacing or twice a spacing.
UnitsMod(k, e, fmt, m) == (MulMod(k, fmt.pow % m, m) + e) % m

\* The double nearest to k/den + e units, ties to even, for k > 0 and the
\* spacing Q of its binade.
RoundToSpacing(k, e, fmt, Q) ==
    LET rem  == UnitsMod(k, e, fmt, Q)
        oddq == UnitsMod(k, e, fmt, 2 * Q) >= Q
    IN  IF 2 * rem < Q \/ (2 * rem = Q /\ ~oddq)
        THEN [k |-> k, e |-> e - rem]
        ELSE [k |-> k, e |-> e + Q - rem]

RoundPositive(k, e, fmt) ==
    CHOOSE r \in {RoundToSpacing(k, e, fmt, Q) : Q \in {fmt.odd * 2^Binade(k, e, fmt)}} : TRUE

\* Rounding of an exact result.  With k = 0 the result is a difference of two
\* doubles within a factor of two of each other, which is a double already.
RoundExact(k, e, fmt) ==
    IF k = 0 THEN [k |-> 0, e |-> e]
    ELSE IF k > 0 THEN RoundPositive(k, e, fmt)
    ELSE [k |-> k, e |-> 0 - RoundPositive(0 - k, 0 - e, fmt).e]

\* The same with its operands evaluated once, before the rounding.
FRound(k0, e0, fmt) ==
    CHOOSE r \in {RoundExact(k, e, fmt) : k \in {k0}, e \in {e0}} : TRUE

\* A decimal literal of the source, k/den, as the double Python reads it as.
Lit(k, fmt) == FRound(k, 0, fmt)

\* int * double, double + double, double - double
FMul(n, c0, fmt) ==
    CHOOSE r \in {FRound(n * c.k, n * c.e, fmt) : c \in {c0}} : TRUE
FAdd(a0, b0, fmt) ==
    CHOOSE r \in {FRound(a.k + b.k, a.e + b.e, fmt) : a \in {a0}, b \in {b0}} : TRUE
FSub(a0, b0, fmt) ==
    CHOOSE r \in {FRound(a.k - b.k, a.e - b.e, fmt) : a \in {a0}, b \in {b0}} : TRUE

\* The exact quotient a / 100 counted in the units of the finer format `to`,
\* rounded.  A quotient with k = 0 is below 2^-50 in magnitude; its sign is
\* kept in e.
Quotient100(a, from, to) ==
    LET scale == (2^(to.shift - from.shift) * from.den * 100) \div to.den
    IN  IF a.k = 0 THEN [k |-> 0, e |-> scale * a.e]
        ELSE FRound(a.k, scale * a.e, to)

\* double / 100
FDiv100(a0, from, to) ==
    CHOOSE r \in {Quotient100(a, from, to) : a \in {a0}} : TRUE

\* double > double, of two doubles of one format
FGt(a0, b0) ==
    \E a \in {a0}, b \in {b0} : a.k > b.k \/ (a.k = b.k /\ a.e > b.e)

\* f"{x:.2%}": the double times 100 to two decimals, as hundredths of a percent.
\* A double [k, e] of ten-thousandths is within 2^-40 of k/10000, so the
\* nearest two-decimal percentage is k/100 %.
FormatPercent2(x) == x.k

(***************************************************************************)
(* Section 3: authentication data                                          *)
(***************************************************************************)

users == ("admin" :> "123#") @@ ("user" :> "123*")

\* What can be typed into the two text inputs of the login page.
Usernames == {"", "admin", "user", "guest"}
Passwords == {"", "123#", "123*", "letmein"}

\* The mutation of line 30 that forgets to compare the password.
credentials_ok_any_password(username, password) == username \in DOMAIN users

\* if username in users and users[username] == password
credentials_ok(username, password) ==
    username \in DOMAIN users /\ users[username] = password

(***************************************************************************)
(* Section 4: the data frame.  The data file is not part of the source;    *)
(* the table explored holds one row (one date) for every combination of    *)
(* values on and next to the thresholds the script compares a column with, *)
(* and its last row is LatestData.                                         *)
(***************************************************************************)

\* The whole percentages on and next to the given ones.
Near(percentages) == UNION {{Pct(p - 1, 0), Pct(p, 0), Pct(p + 1, 0)} : p \in percentages}

InflationValues    == Near({2, 5})
UnemploymentValues == {Pct(1, 0), Pct(4, 0), Pct(5, 0), Pct(8, 0), Pct(9, 0)}
InterestValues     == {Pct(1, 0), Pct(2, 0), Pct(3, 0), Pct(5, 0), Pct(6, 0), Pct(7, 0)}
GdpValues          == {Pct(2, 5), Pct(2, 6)}

EconomicData ==
    [gdp_growth : GdpValues, inflation : InflationValues,
     unemployment : UnemploymentValues, interest_rate : InterestValues]

\* The value of load_data() when the file was read, the table being EconomicData.
DataFile == "Data/Economic Data.csv"

\* The rows of a value of df.
Rows(data) == IF data = DataFile THEN EconomicData ELSE {}

\* df.iloc[-1]
LatestData ==
    [gdp_growth |-> Pct(2, 5), inflation |-> Pct(3, 0),
     unemployment |-> Pct(4, 0), interest_rate |-> Pct(5, 0)]

(***************************************************************************)
(* Section 6: sidebar controls                                             *)
(***************************************************************************)

goal_options ==
    {"Retirement", "Buying a Home", "Wealth Growth",
     "Short-Term Savings", "Capital Preservation"}

\* A goal string that the selectbox does not offer.
UnrecognizedGoal == "Estate Planning"

(***************************************************************************)
(* Section 7: helper functions                                             *)
(***************************************************************************)

\* The texts of the suggestions, without their emoji and with "-" for a dash.
TipRetirementBase   == "Contribute regularly to retirement accounts (e.g., 401(k), IRA)."
TipInflationProtect == "Use inflation-protected assets like TIPS and dividend-paying stocks."
TipBalancedMix      == "Consider a balanced mix of stocks and bonds."
TipHomeBase         == "Start or grow a high-yield savings account for your down payment."
TipRatesHigh        == "Mortgage rates are high-consider delaying purchase or locking rates now."
TipRatesLow         == "Low rates-evaluate mortgage options and affordability."
TipGrowthBase       == "Focus on long-term growth assets like ETFs, tech stocks, or index funds."
TipAggressive       == "Strong economy supports aggressive growth investing."
TipDiversify        == "Diversify with stable sectors (e.g., healthcare, utilities) for balance."
TipSelectGoal       == "Select a goal to see personalized tips."

\* Mutation: the boundary of a conditional tip is taken inclusively.
generate_suggestions_inclusive(goal, gdp, inflation, unemployment, interest_rate) ==
    IF goal = "Retirement" THEN
        <<TipRetirementBase>>
            \o (IF inflation >= Pct(4, 0) THEN <<TipInflationProtect>> ELSE <<TipBalancedMix>>)
    ELSE IF goal = "Buying a Home" THEN
        <<TipHomeBase>>
            \o (IF interest_rate >= Pct(5, 0) THEN <<TipRatesHigh>> ELSE <<TipRatesLow>>)
    ELSE IF goal = "Wealth Growth" THEN
        <<TipGrowthBase>>
            \o (IF gdp >= Pct(2, 0) /\ inflation < Pct(4, 0) THEN <<TipAggressive>> ELSE <<TipDiversify>>)
    ELSE
        <<TipSelectGoal>>

\* Mutation: the branch "# Add other goals..." treats the savings goals as
\* retirement instead of falling through.
generate_suggestions_other_goals(goal, gdp, inflation, unemployment, interest_rate) ==
    IF goal \in {"Retirement", "Short-Term Savings", "Capital Preservation"} THEN
        <<TipRetirementBase>>
            \o (IF inflation > Pct(4, 0) THEN <<TipInflationProtect>> ELSE <<TipBalancedMix>>)
    ELSE IF goal = "Buying a Home" THEN
        <<TipHomeBase>>
            \o (IF interest_rate > Pct(5, 0) THEN <<TipRatesHigh>> ELSE <<TipRatesLow>>)
    ELSE IF goal = "Wealth Growth" THEN
        <<TipGrowthBase>>
            \o (IF gdp > Pct(2, 0) /\ inflation < Pct(4, 0) THEN <<TipAggressive>> ELSE <<TipDiversify>>)
    ELSE
        <<TipSelectGoal>>

\* Mutation: a goal that the selectbox does not offer is rejected (no advice).
generate_suggestions_strict(goal, gdp, inflation, unemployment, interest_rate) ==
    IF goal = "Retirement" THEN
        <<TipRetirementBase>>
            \o (IF inflation > Pct(4, 0) THEN <<TipInflationProtect>> ELSE <<TipBalancedMix>>)
    ELSE IF goal = "Buying a Home" THEN
        <<TipHomeBase>>
            \o (IF interest_rate > Pct(5, 0) THEN <<TipRatesHigh>> ELSE <<TipRatesLow>>)
    ELSE IF goal = "Wealth Growth" THEN
        <<TipGrowthBase>>
            \o (IF gdp > Pct(2, 0) /\ inflation < Pct(4, 0) THEN <<TipAggressive>> ELSE <<TipDiversify>>)
    ELSE IF goal \in goal_options THEN
        <<TipSelectGoal>>
    ELSE
        <<>>

\* Mutation: the list of suggestions outlives the call (a module-level list,
\* or a mutable default argument) and each call appends to the last page's.
generate_suggestions_accumulating(goal, gdp, inflation, unemployment, interest_rate) ==
    (IF Len(page.advice) < 4 THEN page.advice ELSE <<>>)
        \o (IF goal = "Retirement" THEN
                <<TipRetirementBase>>
                    \o (IF inflation > Pct(4, 0) THEN <<TipInflationProtect>> ELSE <<TipBalancedMix>>)
            ELSE IF goal = "Buying a Home" THEN
                <<TipHomeBase>>
                    \o (IF interest_rate > Pct(5, 0) THEN <<TipRatesHigh>> ELSE <<TipRatesLow>>)
            ELSE IF goal = "Wealth Growth" THEN
                <<TipGrowthBase>>
                    \o (IF gdp > Pct(2, 0) /\ inflation < Pct(4, 0) THEN <<TipAggressive>> ELSE <<TipDiversify>>)
            ELSE
                <<TipSelectGoal>>)

\* def generate_suggestions(goal, gdp, inflation, unemployment, interest_rate)
generate_suggestions(goal, gdp, inflation, unemployment, interest_rate) ==
    IF goal = "Retirement" THEN
        <<TipRetirementBase>>
            \o (IF inflation > Pct(4, 0) THEN <<TipInflationProtect>> ELSE <<TipBalancedMix>>)
    ELSE IF goal = "Buying a Home" THEN
        <<TipHomeBase>>
            \o (IF interest_rate > Pct(5, 0) THEN <<TipRatesHigh>> ELSE <<TipRatesLow>>)
    ELSE IF goal = "Wealth Growth" THEN
        <<TipGrowthBase>>
            \o (IF gdp > Pct(2, 0) /\ inflation < Pct(4, 0) THEN <<TipAggressive>> ELSE <<TipDiversify>>)
    ELSE
        <<TipSelectGoal>>

TipCapitalGains  == "Consider holding stocks long-term (over 1 year) to benefit from lower capital gains tax rates."
TipMunicipal     == "Municipal bonds generate tax-free income at the federal level. Good choice!"
TipHighTurnover  == "Consider moving high-turnover funds to tax-advantaged accounts (like an IRA) to avoid annual tax drag."
TipTaxEfficient  == "Your portfolio looks tax-efficient. Remember to consult a tax professional."

\* alloc_df['Asset Class'].values
AssetClasses(alloc_df) == {alloc_df[i].asset_class : i \in 1..Len(alloc_df)}

\* alloc_df.loc[alloc_df['Asset Class'] == class, 'Allocation %'].values[0]
AllocationOf(alloc_df, class) ==
    LET first == CHOOSE i \in 1..Len(alloc_df) :
                    /\ alloc_df[i].asset_class = class
                    /\ \A j \in 1..(i - 1) : alloc_df[j].asset_class # class
    IN  alloc_df[first].allocation

\* Mutation: the stocks rule fires from 50 on.
tax_efficiency_tips_from_50(alloc_df) ==
    LET tips1 == IF "Stocks" \in AssetClasses(alloc_df) /\ AllocationOf(alloc_df, "Stocks") >= 50
                 THEN <<TipCapitalGains>> ELSE <<>>
    IN  IF tips1 = <<>> THEN <<TipTaxEfficient>> ELSE tips1

\* def tax_efficiency_tips(alloc_df)
tax_efficiency_tips(alloc_df) ==
    LET classes == AssetClasses(alloc_df)
        tips1 == IF "Stocks" \in classes /\ AllocationOf(alloc_df, "Stocks") > 50
                 THEN <<TipCapitalGains>> ELSE <<>>
        tips2 == IF "Municipal Bonds" \in classes /\ AllocationOf(alloc_df, "Municipal Bonds") > 0
                 THEN Append(tips1, TipMunicipal) ELSE tips1
        tips3 == IF "High Turnover Funds" \in classes /\ AllocationOf(alloc_df, "High Turnover Funds") > 10
                 THEN Append(tips2, TipHighTurnover) ELSE tips2
    IN  IF tips3 = <<>> THEN <<TipTaxEfficient>> ELSE tips3

(***************************************************************************)
(* Section 8, tab 2: market summary for the selected date                  *)
(***************************************************************************)

\* Mutation: the high rule needs all three indicators to be high.
MarketRiskLevel_all_high(inflation, unemployment, interest_rate) ==
    IF inflation > Pct(5, 0) /\ unemployment > Pct(8, 0) /\ interest_rate > Pct(6, 0) THEN "High"
    ELSE IF inflation < Pct(2, 0) /\ unemployment < Pct(5, 0) /\ interest_rate < Pct(3, 0) THEN "Low"
    ELSE "Moderate"

\* risk_level = "Moderate"; if ...: "High"; elif ...: "Low"
MarketRiskLevel(inflation, unemployment, interest_rate) ==
    IF inflation > Pct(5, 0) \/ unemployment > Pct(8, 0) \/ interest_rate > Pct(6, 0) THEN "High"
    ELSE IF inflation < Pct(2, 0) /\ unemployment < Pct(5, 0) /\ interest_rate < Pct(3, 0) THEN "Low"
    ELSE "Moderate"

TipHedgeInflation == "Inflation was high. Consider assets like gold and real estate to hedge."
TipStrongGdp      == "Strong GDP growth detected. Equities may have been a good investment."
TipStable         == "Market conditions appear stable. A balanced portfolio is recommended."

\* the diversification tips of tab 2
DiversificationTips(inflation, gdp_growth) ==
    LET tips1 == IF inflation > Pct(3, 0) THEN <<TipHedgeInflation>> ELSE <<>>
        tips2 == IF gdp_growth > Pct(2, 5) THEN Append(tips1, TipStrongGdp) ELSE tips1
    IN  IF tips2 = <<>> THEN <<TipStable>> ELSE tips2

(***************************************************************************)
(* Section 8, tab 3: portfolio builder                                     *)
(***************************************************************************)

\* st.progress(value) with an int: Streamlit raises StreamlitAPIException
\* unless 0 <= value <= 100, which ends the run of the script.
progress_raises(value) == value < 0 \/ value > 100

\* The weights and thresholds of lines 285-288, as the doubles Python reads.
RiskWeightStocks     == Lit(6, Tenths)
RiskWeightRealEstate == Lit(3, Tenths)
RiskWeightBonds      == Lit(4, Tenths)
RiskWeightCash       == Lit(5, Tenths)
HighRiskThreshold    == Lit(400, Thousandths)
MediumRiskThreshold  == Lit(150, Thousandths)
ReturnStocks         == Lit(8, Hundredths)
ReturnBonds          == Lit(3, Hundredths)
ReturnRealEstate     == Lit(6, Hundredths)
ReturnCash           == Lit(2, Hundredths)
VolatilityStocks     == Lit(15, Hundredths)
VolatilityBonds      == Lit(5, Hundredths)
VolatilityRealEstate == Lit(10, Hundredths)
VolatilityCash       == Lit(1, Hundredths)

\* Mutation: bonds and cash add to the risk instead of reducing it.
risk_score_unsigned(stocks, bonds, real_estate, cash) ==
    FDiv100(
        FAdd(FAdd(FAdd(FMul(stocks, RiskWeightStocks, Tenths),
                       FMul(real_estate, RiskWeightRealEstate, Tenths), Tenths),
                  FMul(bonds, RiskWeightBonds, Tenths), Tenths),
             FMul(cash, RiskWeightCash, Tenths), Tenths),
        Tenths, Thousandths)

\* risk_score = (stocks * 0.6 + real_estate * 0.3 - bonds * 0.4 - cash * 0.5) / 100
risk_score(stocks, bonds, real_estate, cash) ==
    FDiv100(
        FSub(FSub(FAdd(FMul(stocks, RiskWeightStocks, Tenths),
                       FMul(real_estate, RiskWeightRealEstate, Tenths), Tenths),
                  FMul(bonds, RiskWeightBonds, Tenths), Tenths),
             FMul(cash, RiskWeightCash, Tenths), Tenths),
        Tenths, Thousandths)

\* risk_level = "High" if risk_score > 0.4 else "Medium" if risk_score > 0.15 else "Low"
portfolio_risk_level(score) ==
    IF FGt(score, HighRiskThreshold) THEN "High"
    ELSE IF FGt(score, MediumRiskThreshold) THEN "Medium"
    ELSE "Low"

\* expected_return = (stocks * 0.08 + bonds * 0.03 + real_estate * 0.06 + cash * 0.02) / 100
expected_return(stocks, bonds, real_estate, cash) ==
    FDiv100(
        FAdd(FAdd(FAdd(FMul(stocks, ReturnStocks, Hundredths),
                       FMul(bonds, ReturnBonds, Hundredths), Hundredths),
                  FMul(real_estate, ReturnRealEstate, Hundredths), Hundredths),
             FMul(cash, ReturnCash, Hundredths), Hundredths),
        Hundredths, TenThousandths)

\* volatility = (stocks * 0.15 + bonds * 0.05 + real_estate * 0.1 + cash * 0.01) / 100
volatility(stocks, bonds, real_estate, cash) ==
    FDiv100(
        FAdd(FAdd(FAdd(FMul(stocks, VolatilityStocks, Hundredths),
                       FMul(bonds, VolatilityBonds, Hundredths), Hundredths),
                  FMul(real_estate, VolatilityRealEstate, Hundredths), Hundredths),
             FMul(cash, VolatilityCash, Hundredths), Hundredths),
        Hundredths, TenThousandths)

\* the risk alert under the summary
risk_alert(score) ==
    IF FGt(score, HighRiskThreshold) THEN "High Risk Alert"
    ELSE IF FGt(score, MediumRiskThreshold) THEN "Moderate Risk"
    ELSE "Low Risk"

\* alloc_df = pd.DataFrame({"Asset Class": [...], "Allocation %": [...]})
AllocDf(stocks, bonds, real_estate, cash) ==
    << [asset_class |-> "Stocks",      allocation |-> stocks],
       [asset_class |-> "Bonds",       allocation |-> bonds],
       [asset_class |-> "Real Estate", allocation |-> real_estate],
       [asset_class |-> "Cash",        allocation |-> cash] >>

\* Everything tab 3 computes after st.progress has accepted the total, given
\* the risk score.
SummaryWithScore(stocks, bonds, real_estate, cash, score) ==
    [ total_msg       |-> IF stocks + bonds + real_estate + cash # 100
                          THEN "error: must sum to 100%"
                          ELSE "success: total allocation is 100%",
      risk_score      |-> score,
      risk_level      |-> portfolio_risk_level(score),
      expected_return |-> expected_return(stocks, bonds, real_estate, cash),
      volatility      |-> volatility(stocks, bonds, real_estate, cash),
      risk_alert      |-> risk_alert(score),
      alloc_df        |-> AllocDf(stocks, bonds, real_estate, cash),
      tax_tips        |-> tax_efficiency_tips(AllocDf(stocks, bonds, real_estate, cash)) ]

PortfolioSummary(stocks, bonds, real_estate, cash) ==
    CHOOSE summary \in
        {SummaryWithScore(stocks, bonds, real_estate, cash, score) :
            score \in {risk_score(stocks, bonds, real_estate, cash)}} : TRUE

(***************************************************************************)
(* Section 8, tab 4: report and feedback                                   *)
(***************************************************************************)

\* The lines written to the PDF when "Generate PDF Report" is clicked (with
\* the fpdf package whose output(dest='S') is a str).
PdfReport(w, summary) ==
    [ goal            |-> w.goal,
      stocks          |-> w.stocks,
      bonds           |-> w.bonds,
      real_estate     |-> w.real_estate,
      cash            |-> w.cash,
      risk_level      |-> summary.risk_level,
      expected_return |-> FormatPercent2(summary.expected_return) ]

\* feedback.strip()
Strip(text) == IF text = "   " THEN "" ELSE text

FeedbackMessage(feedback) ==
    IF Strip(feedback) # "" THEN "success: thanks for your feedback"
    ELSE "warning: feedback is empty"

(***************************************************************************)
(* The script, top to bottom                                               *)
(***************************************************************************)

\* The widgets as they are when first rendered.
DefaultWidgets ==
    [ username         |-> "",
      password         |-> "",
      goal             |-> "Retirement",
      selected_data    |-> LatestData,
      sim_gdp          |-> LatestData.gdp_growth,
      sim_inflation    |-> LatestData.inflation,
      sim_unemployment |-> LatestData.unemployment,
      sim_interest     |-> LatestData.interest_rate,
      stocks           |-> 50,
      bonds            |-> 30,
      real_estate      |-> 10,
      cash             |-> 10,
      feedback         |-> "" ]

\* A page on which nothing has been computed.
BlankPage ==
    [ view              |-> "login",
      login_error       |-> FALSE,
      advice            |-> <<>>,
      market_risk_level |-> None,
      tips              |-> <<>>,
      total_alloc       |-> <<>>,
      exception         |-> None,
      portfolio         |-> <<>>,
      pdf               |-> <<>>,
      feedback_msg      |-> None ]

\* Lines 25-35: the run of an unauthenticated session stops at st.stop().
LoginPage(error) == [BlankPage EXCEPT !.login_error = error]

\* Lines 70-72: no data, the run stops before any widget or tab.
NoDataPage == [BlankPage EXCEPT !.view = "no_data"]

\* Lines 208-261: tab 2, and the total of tab 3 (line 274).
Tab2Page(w) ==
    LET row == w.selected_data
    IN  [BlankPage EXCEPT
            !.view              = "app",
            !.advice            = generate_suggestions(w.goal, w.sim_gdp, w.sim_inflation,
                                                       w.sim_unemployment, w.sim_interest),
            !.market_risk_level = MarketRiskLevel(row.inflation, row.unemployment,
                                                  row.interest_rate),
            !.tips              = DiversificationTips(row.inflation, row.gdp_growth),
            !.total_alloc       = <<w.stocks + w.bonds + w.real_estate + w.cash>>]

\* Lines 278-381: the rest of tab 3 and tab 4, once the summary is computed.
\* `button` is the button whose click triggered the run ("none" for a widget
\* change).
Tab34Page(w, button, summary) ==
    [Tab2Page(w) EXCEPT
        !.portfolio    = <<summary>>,
        !.pdf          = IF button = "pdf" THEN <<PdfReport(w, summary)>> ELSE <<>>,
        !.feedback_msg = IF button = "feedback" THEN FeedbackMessage(w.feedback) ELSE None]

\* Lines 113-381: a run of an authenticated session with data.  The run ends
\* at line 276 when st.progress raises.
AppPage(w, button) ==
    IF progress_raises(w.stocks + w.bonds + w.real_estate + w.cash)
    THEN [Tab2Page(w) EXCEPT !.exception = "StreamlitAPIException"]
    ELSE CHOOSE p \in
            {Tab34Page(w, button, summary) :
                summary \in {PortfolioSummary(w.stocks, w.bonds, w.real_estate, w.cash)}} : TRUE

\* if df is None or df.empty: st.stop()
RunScript(w, button) == IF Rows(df) = {} THEN NoDataPage ELSE AppPage(w, button)

\* Streamlit drops the state of a widget that a run did not render: the
\* feedback box of tab 4 when the run ended at st.progress.
WidgetsAfter(w) ==
    IF Rows(df) # {} /\ progress_raises(w.stocks + w.bonds + w.real_estate + w.cash)
    THEN [w EXCEPT !.feedback = ""]
    ELSE w

(***************************************************************************)
(* Initial state: a new session, whose first run shows the login page      *)
(***************************************************************************)

Init ==
    /\ session_state = [authenticated |-> FALSE]
    /\ df \in {None, DataFile}
    /\ widgets = DefaultWidgets
    /\ page = LoginPage(FALSE)
    /\ remembered = <<>>
    /\ returned = <<>>

(***************************************************************************)
(* Interactions on the login page                                          *)
(***************************************************************************)

EnterUsername(u) ==
    /\ ~session_state.authenticated
    /\ widgets' = [widgets EXCEPT !.username = u]
    /\ page' = LoginPage(FALSE)
    /\ UNCHANGED <<session_state, df, remembered, returned>>

EnterPassword(p) ==
    /\ ~session_state.authenticated
    /\ widgets' = [widgets EXCEPT !.password = p]
    /\ page' = LoginPage(FALSE)
    /\ UNCHANGED <<session_state, df, remembered, returned>>

\* Lines 29-34.  On success the flag is set and st.rerun() runs the script
\* again at once, now past the gate and with every widget at its default.
ClickLogin ==
    /\ ~session_state.authenticated
    /\ IF credentials_ok(widgets.username, widgets.password)
       THEN /\ session_state' = [session_state EXCEPT !.authenticated = TRUE]
            /\ widgets' = DefaultWidgets
            /\ page' = RunScript(DefaultWidgets, "none")
       ELSE /\ page' = LoginPage(TRUE)
            /\ UNCHANGED <<session_state, widgets>>
    /\ UNCHANGED <<df, remembered, returned>>

(***************************************************************************)
(* Interactions with the application                                       *)
(***************************************************************************)

\* A change of one widget and the run it triggers.
Rerun(w) ==
    /\ session_state.authenticated
    /\ page.view = "app"
    /\ widgets' = WidgetsAfter(w)
    /\ page' = RunScript(w, "none")
    /\ UNCHANGED <<session_state, df, remembered, returned>>

ChooseGoal(g)           == Rerun([widgets EXCEPT !.goal = g])
ChooseDate(row)         == row \in Rows(df) /\ Rerun([widgets EXCEPT !.selected_data = row])
SlideSimGdp(v)          == Rerun([widgets EXCEPT !.sim_gdp = v])
SlideSimInflation(v)    == Rerun([widgets EXCEPT !.sim_inflation = v])
SlideSimUnemployment(v) == Rerun([widgets EXCEPT !.sim_unemployment = v])
SlideSimInterest(v)     == Rerun([widgets EXCEPT !.sim_interest = v])
SlideStocks(v)          == Rerun([widgets EXCEPT !.stocks = v])
SlideBonds(v)           == Rerun([widgets EXCEPT !.bonds = v])
SlideRealEstate(v)      == Rerun([widgets EXCEPT !.real_estate = v])
SlideCash(v)            == Rerun([widgets EXCEPT !.cash = v])

\* The widgets of tab 4 exist only on a page whose run reached tab 4.
EnterFeedback(text) ==
    /\ page.exception = None
    /\ Rerun([widgets EXCEPT !.feedback = text])

ClickButton(button) ==
    /\ session_state.authenticated
    /\ page.view = "app"
    /\ page.exception = None
    /\ page' = RunScript(widgets, button)
    /\ UNCHANGED <<session_state, df, widgets, remembered, returned>>

ClickGeneratePdf    == ClickButton("pdf")
ClickSubmitFeedback == ClickButton("feedback")

\* A call of generate_suggestions with arguments of the caller's choosing,
\* keeping the arguments and the list returned.
CallGenerateSuggestions(goal, gdp, inflation, unemployment, interest_rate) ==
    /\ returned' = <<[goal |-> goal, gdp |-> gdp, inflation |-> inflation,
                      unemployment |-> unemployment, interest_rate |-> interest_rate,
                      suggestions |-> generate_suggestions(goal, gdp, inflation,
                                                           unemployment, interest_rate)]>>
    /\ UNCHANGED <<session_state, df, widgets, page, remembered>>

\* History: keep the inputs and the results of the run just made.
Remember ==
    /\ page.view = "app"
    /\ remembered' = <<[widgets |-> widgets, page |-> page]>>
    /\ UNCHANGED <<session_state, df, widgets, page, returned>>

(***************************************************************************)
(* Specifications                                                          *)
(***************************************************************************)

LoginInteractions ==
    \/ \E u \in Usernames : EnterUsername(u)
    \/ \E p \in Passwords : EnterPassword(p)
    \/ ClickLogin

\* The whole session, each widget moved between its default and a few values.
SessionRows   == {[gdp_growth |-> Pct(2, 6), inflation |-> Pct(6, 0),
                   unemployment |-> Pct(4, 0), interest_rate |-> Pct(2, 0)]}
SessionSims   == {Pct(6, 0)}
SessionAllocs == {60}
SessionNotes  == {"", "   ", "Great app."}

Next ==
    \/ LoginInteractions
    \/ \E g \in goal_options : ChooseGoal(g)
    \/ \E row \in SessionRows : ChooseDate(row)
    \/ \E v \in SessionSims : SlideSimGdp(v)
    \/ \E v \in SessionSims : SlideSimInflation(v)
    \/ \E v \in SessionSims : SlideSimUnemployment(v)
    \/ \E v \in SessionSims : SlideSimInterest(v)
    \/ \E v \in SessionAllocs \cup {DefaultWidgets.stocks} : SlideStocks(v)
    \/ \E v \in SessionAllocs \cup {DefaultWidgets.bonds} : SlideBonds(v)
    \/ \E v \in SessionAllocs \cup {DefaultWidgets.real_estate} : SlideRealEstate(v)
    \/ \E v \in SessionAllocs \cup {DefaultWidgets.cash} : SlideCash(v)
    \/ \E text \in SessionNotes : EnterFeedback(text)
    \/ ClickGeneratePdf
    \/ ClickSubmitFeedback

Spec == Init /\ [][Next]_vars

\* The market summary over every date of the table.
NextMarket ==
    \/ LoginInteractions
    \/ \E row \in EconomicData : ChooseDate(row)

SpecMarket == Init /\ [][NextMarket]_vars

\* The goal advisor behind the sidebar.
SimValues    == {Pct(i, 0) : i \in 0..MaxSim}
GdpSimValues == {Pct(i, 0) : i \in (0 - 1)..MaxSim}

NextGoal ==
    \/ LoginInteractions
    \/ \E g \in goal_options : ChooseGoal(g)
    \/ \E v \in GdpSimValues : SlideSimGdp(v)
    \/ \E v \in SimValues : SlideSimInflation(v)
    \/ \E v \in {Pct(15, 0)} : SlideSimUnemployment(v)
    \/ \E v \in SimValues : SlideSimInterest(v)

SpecGoal == Init /\ [][NextGoal]_vars

\* The portfolio builder over allocations of every kind: valid ones (27 of
\* them), totals short of 100 and above 100, stocks on either side of 50, and
\* scores on the thresholds of the risk ladder.
StocksValues     == {0, 20, 50, 51, 71, 100}
BondsValues      == {0, 7, 20, 30, 50, 100}
RealEstateValues == {0, 10, 14, 30, 50, 100}
CashValues       == {0, 8, 10, 20, 50, 100}

NextAlloc ==
    \/ LoginInteractions
    \/ \E v \in StocksValues : SlideStocks(v)
    \/ \E v \in BondsValues : SlideBonds(v)
    \/ \E v \in RealEstateValues : SlideRealEstate(v)
    \/ \E v \in CashValues : SlideCash(v)
    \/ ClickGeneratePdf

SpecAlloc == Init /\ [][NextAlloc]_vars

\* generate_suggestions called from the sidebar and on its own, with goals of
\* the selectbox and a goal outside it, and rates on and next to the values
\* it compares with.
GoalInputs    == goal_options \cup {UnrecognizedGoal}
AdvisorGdp    == {Pct(1, 0), Pct(2, 0), Pct(3, 0)}
AdvisorRates  == {Pct(4, 0), Pct(5, 0), Pct(6, 0)}

NextAdvisor ==
    \/ LoginInteractions
    \/ \E g \in goal_options : ChooseGoal(g)
    \/ \E goal \in GoalInputs, gdp \in AdvisorGdp, inflation \in AdvisorRates,
       interest_rate \in AdvisorRates :
        CallGenerateSuggestions(goal, gdp, inflation, LatestData.unemployment, interest_rate)

SpecAdvisor == Init /\ [][NextAdvisor]_vars

\* Runs in any order with an earlier run remembered.
IdemGoals  == {"Retirement", "Short-Term Savings"}
IdemRows   == SessionRows \cup {LatestData}
IdemSims   == {Pct(3, 0), Pct(6, 0)}
IdemAllocs == {10, 50, 60}

NextIdem ==
    \/ LoginInteractions
    \/ \E g \in IdemGoals : ChooseGoal(g)
    \/ \E row \in IdemRows : ChooseDate(row)
    \/ \E v \in IdemSims : SlideSimInflation(v)
    \/ \E v \in IdemAllocs : SlideStocks(v)
    \/ Remember

SpecIdem == Init /\ [][NextIdem]_vars

(***************************************************************************)
(* Properties                                                              *)
(***************************************************************************)

\* The page is one that a run past the login gate and the data check rendered.
AppRendered == page.view = "app"

\* The sum of the four allocation sliders.
TotalAllocation == widgets.stocks + widgets.bonds + widgets.real_estate + widgets.cash

\* C1: the market risk level shown for the selected date is exactly one of
\* Low, Moderate and High: High whenever inflation > 5 or unemployment > 8 or
\* interest rate > 6, whatever the other indicators are; Low exactly when none
\* of these holds and inflation < 2, unemployment < 5 and interest rate < 3;
\* Moderate in every other case.
C1_MarketRiskTotalFirstMatch ==
    AppRendered =>
        LET row  == widgets.selected_data
            high == \/ row.inflation > Pct(5, 0)
                    \/ row.unemployment > Pct(8, 0)
                    \/ row.interest_rate > Pct(6, 0)
            low  == /\ row.inflation < Pct(2, 0)
                    /\ row.unemployment < Pct(5, 0)
                    /\ row.interest_rate < Pct(3, 0)
        IN  /\ page.market_risk_level \in {"Low", "Moderate", "High"}
            /\ (page.market_risk_level = "High") <=> high
            /\ (page.market_risk_level = "Low") <=> (~high /\ low)
            /\ (page.market_risk_level = "Moderate") <=> (~high /\ ~low)

\* C1, its example: inflation 6 with unemployment 1 and interest rate 1 is High.
C1_Witness ==
    /\ AppRendered
    /\ widgets.selected_data.inflation = Pct(6, 0)
    /\ widgets.selected_data.unemployment = Pct(1, 0)
    /\ widgets.selected_data.interest_rate = Pct(1, 0)
    /\ page.market_risk_level = "High"

\* C2: every allocation is reported valid iff it sums to 100, and the risk
\* score, risk level, expected return, volatility and tax tips are computed
\* for it whatever its sum; no run ends in an exception.
C2_InvalidAllocationIsAResult ==
    AppRendered =>
        /\ page.exception = None
        /\ Len(page.portfolio) = 1
        /\ (page.portfolio[1].total_msg = "success: total allocation is 100%")
               <=> (TotalAllocation = 100)

\* C2: a run with the sliders summing to more than 100 ended at st.progress,
\* with no validity message and no metrics.
C2_Witness ==
    /\ AppRendered
    /\ TotalAllocation > 100
    /\ page.exception = "StreamlitAPIException"
    /\ page.portfolio = <<>>

\* C3: the portfolio risk level, in the summary and in the report, is one of
\* Low, Moderate and High: High if the risk score > 0.4, else Moderate if it
\* is > 0.15, else Low, the score being the exact value of
\* (0.6 stocks + 0.3 real estate - 0.4 bonds - 0.5 cash) / 100.
C3_PortfolioRiskLadder ==
    Len(page.portfolio) = 1 =>
        LET thousandths == 6 * widgets.stocks + 3 * widgets.real_estate
                               - 4 * widgets.bonds - 5 * widgets.cash
            level == IF thousandths > 400 THEN "High"
                     ELSE IF thousandths > 150 THEN "Moderate"
                     ELSE "Low"
        IN  /\ page.portfolio[1].risk_level = level
            /\ Len(page.pdf) = 1 => page.pdf[1].risk_level = level

\* C3: the default allocation, whose score is 0.16, is shown as "Medium" in
\* the summary and in the report, beside the alert "Moderate Risk".
C3_Witness ==
    /\ Len(page.portfolio) = 1
    /\ Len(page.pdf) = 1
    /\ widgets.stocks = 50 /\ widgets.bonds = 30
    /\ widgets.real_estate = 10 /\ widgets.cash = 10
    /\ page.portfolio[1].risk_level = "Medium"
    /\ page.pdf[1].risk_level = "Medium"
    /\ page.portfolio[1].risk_alert = "Moderate Risk"

\* C4: for Retirement, Buying a Home and Wealth Growth the advice is two tips,
\* the goal's base tip and then one conditional tip: inflation protection iff
\* inflation > 4 (else the balanced mix); rates high iff interest rate > 5
\* (else rates low); aggressive growth iff gdp > 2 and inflation < 4 (else
\* diversify).  On the boundaries 4, 5 and 2 the else tip is given.
C4_TwoTipsPerGoal ==
    AppRendered =>
        /\ widgets.goal = "Retirement" =>
              page.advice = <<TipRetirementBase,
                              IF widgets.sim_inflation > Pct(4, 0)
                              THEN TipInflationProtect ELSE TipBalancedMix>>
        /\ widgets.goal = "Buying a Home" =>
              page.advice = <<TipHomeBase,
                              IF widgets.sim_interest > Pct(5, 0)
                              THEN TipRatesHigh ELSE TipRatesLow>>
        /\ widgets.goal = "Wealth Growth" =>
              page.advice = <<TipGrowthBase,
                              IF widgets.sim_gdp > Pct(2, 0) /\ widgets.sim_inflation < Pct(4, 0)
                              THEN TipAggressive ELSE TipDiversify>>

\* C4, on a boundary: Wealth Growth with gdp exactly 2 (and low inflation) is
\* told to diversify.
C4_Witness ==
    /\ AppRendered
    /\ widgets.goal = "Wealth Growth"
    /\ widgets.sim_gdp = Pct(2, 0)
    /\ widgets.sim_inflation = Pct(3, 0)
    /\ page.advice = <<TipGrowthBase, TipDiversify>>

\* The goals that generate_suggestions has a branch for.
AdvisedGoals == {"Retirement", "Buying a Home", "Wealth Growth"}

\* C5: for every goal other than Retirement, Buying a Home and Wealth Growth,
\* the other two goals of the selectbox and a string outside it alike, and for
\* every economic input, generate_suggestions returns a list: the single
\* "select a goal" tip.
C5_PlaceholderForOtherGoals ==
    /\ \A i \in 1..Len(returned) :
          returned[i].goal \notin AdvisedGoals => returned[i].suggestions = <<TipSelectGoal>>
    /\ AppRendered /\ widgets.goal \notin AdvisedGoals => page.advice = <<TipSelectGoal>>

\* C5: a call for Capital Preservation at high inflation and high rates
\* returned the placeholder.
C5_Witness ==
    /\ Len(returned) = 1
    /\ returned[1].goal = "Capital Preservation"
    /\ returned[1].inflation = Pct(6, 0)
    /\ returned[1].interest_rate = Pct(6, 0)
    /\ returned[1].suggestions = <<TipSelectGoal>>

\* C6 as stated: a goal outside the five of the selectbox is rejected by
\* generate_suggestions, not mapped to the default result.
C6_UnknownGoalRejected ==
    \A i \in 1..Len(returned) :
        returned[i].goal \notin goal_options => returned[i].suggestions # <<TipSelectGoal>>

\* C6 amended: the selectbox offers five goals and no other; generate_suggestions
\* itself does not reject a goal outside the five, it returns for it what it
\* returns for Short-Term Savings and Capital Preservation, the one
\* placeholder tip.
C6_UnknownGoalDefaulted ==
    /\ widgets.goal \in goal_options
    /\ Cardinality(goal_options) = 5
    /\ \A i \in 1..Len(returned) :
          returned[i].goal \notin goal_options =>
              /\ Len(returned[i].suggestions) = 1
              /\ \A g \in goal_options \ AdvisedGoals :
                    returned[i].suggestions =
                        generate_suggestions(g, returned[i].gdp, returned[i].inflation,
                                             returned[i].unemployment, returned[i].interest_rate)

\* C6: a call with a goal that the selectbox does not offer returned a tip.
C6_Witness ==
    /\ Len(returned) = 1
    /\ returned[1].goal = UnrecognizedGoal
    /\ Len(returned[1].suggestions) = 1

\* set(tips)
TipSet(tips) == {tips[i] : i \in 1..Len(tips)}

\* C7: for every allocation of the four asset classes tax_efficiency_tips
\* returns exactly one tip: the capital-gains tip iff stocks > 50 (not at 50),
\* never the municipal-bonds or the high-turnover tip, and the "looks
\* tax-efficient" tip iff no other tip fired.  The summary shows that list.
C7_ExactlyOneTaxTip ==
    AppRendered =>
        LET tips == tax_efficiency_tips(AllocDf(widgets.stocks, widgets.bonds,
                                                widgets.real_estate, widgets.cash))
        IN  /\ Len(tips) = 1
            /\ (TipCapitalGains \in TipSet(tips)) <=> (widgets.stocks > 50)
            /\ TipMunicipal \notin TipSet(tips)
            /\ TipHighTurnover \notin TipSet(tips)
            /\ (TipTaxEfficient \in TipSet(tips)) <=> (TipSet(tips) \subseteq {TipTaxEfficient})
            /\ Len(page.portfolio) = 1 => page.portfolio[1].tax_tips = tips

\* C7, on the boundary: stocks at exactly 50 get the fallback tip.
C7_Witness ==
    /\ Len(page.portfolio) = 1
    /\ widgets.stocks = 50
    /\ widgets.bonds = 50
    /\ page.portfolio[1].tax_tips = <<TipTaxEfficient>>

\* Some evaluator ran in the run that rendered the page: the goal advisor, the
\* market risk indicator, the portfolio analysis with its tax tips, or the
\* report.
EvaluatorsRan ==
    \/ page.advice # <<>>
    \/ page.market_risk_level # None
    \/ page.tips # <<>>
    \/ page.total_alloc # <<>>
    \/ page.portfolio # <<>>
    \/ page.pdf # <<>>

\* C8: the authenticated flag starts false; no evaluator runs while it is
\* false; it becomes true only in a step taken with the username of a known
\* user and that user's stored password in the login form; once true it is
\* never reset.
C8_AuthenticationGate ==
    /\ ~session_state.authenticated
    /\ [](EvaluatorsRan => session_state.authenticated)
    /\ [][(~session_state.authenticated /\ session_state'.authenticated) =>
             /\ widgets.username \in {"admin", "user"}
             /\ widgets.password = users[widgets.username]
             /\ widgets.password =
                   (IF widgets.username = "admin" THEN "123#" ELSE "123*")]_vars
    /\ [][session_state.authenticated => session_state'.authenticated]_vars

\* C8: a session that logged in as "user" and whose run evaluated everything.
C8_Witness ==
    /\ session_state.authenticated
    /\ page.advice # <<>>
    /\ page.market_risk_level # None
    /\ page.portfolio # <<>>
    /\ page.pdf # <<>>

FLe(x, y) == ~FGt(x, y)

====
